---- MODULE Spec2Model ----
(***************************************************************************)
(* Session conversation store of the chatbot sample                        *)
(* (AIPlaygroundCode/utils/helpers.py) and the Flask session it lives in.  *)
(*                                                                         *)
(* A message content is a string.  Strings of up to a megabyte are kept as *)
(* run-length sequences: a content is a sequence of runs [c, n, t], n      *)
(* characters of class c, t telling apart different texts of one class.    *)
(*   "a"  ordinary text of high entropy, ASCII                             *)
(*   "x"  one character repeated (filler)                                  *)
(*   "u"  non-ASCII text of high entropy (CJK)                             *)
(*   "M"  the literal 'data:image/jpeg;base64,'                            *)
(*   "p"  base64 payload characters following an "M"                       *)
(*   "R"  the literal '[image data removed]' (or a prefix of it)           *)
(*   "T1" the marker appended by _process_multimodal_content_light         *)
(*   "T2" the marker appended by _apply_intelligent_truncation             *)
(* Slicing, concatenation, replacement and len() act on the runs as the    *)
(* Python string operations act on the characters.                         *)
(***************************************************************************)
EXTENDS Integers, Sequences, FiniteSets, TLC

\* ------------------------------------------------------------------ bounds
\* an append is offered while the history holds at most MaxHist messages
MaxHist == 2
\* the longest history handed to a call of _apply_intelligent_truncation
\* that is followed statement by statement
MaxLoopHist == 3

\* ------------------------------------------------------- program constants
SESSION_LIMIT == 3200
MESSAGE_OVERHEAD == 200
\* buffer subtracted in max_content_size = SESSION_LIMIT - MESSAGE_OVERHEAD - 100
CONTENT_BUFFER == 100
\* room left for the indicator in new_message['content'][:max_content_size-100]
MARKER_ROOM == 100
\* len(content) > 8000 in _process_multimodal_content_light
LIGHT_LIMIT == 8000
\* content[:7900]
LIGHT_KEEP == 7900
\* len('data:image/jpeg;base64,')
MARKER_LEN == 23
\* len('[image data removed]')
PLACEHOLDER_LEN == 20
\* len('..\n\n*[Content lightly truncated for session efficiency]*')
LIGHT_MARK_LEN == 56
\* len('..\n\n*[Response truncated - message too large for session storage]*')
HARD_MARK_LEN == 66
\* session_size > 3000 in check_configuration
CLEANUP_LIMIT == 3000
\* len of the entry 'settings_message': {'type': 'success', 'text': '...'}
SETTINGS_MESSAGE_LEN == 112

\* ------------------------------------------------------------ string model
Run(c, n, t) == [c |-> c, n |-> n, t |-> t]

Placeholder == Run("R", PLACEHOLDER_LEN, 0)
LightMark == Run("T1", LIGHT_MARK_LEN, 0)
HardMark == Run("T2", HARD_MARK_LEN, 0)

\* len(content)
RECURSIVE StrLen(_)
StrLen(s) == IF s = <<>> THEN 0 ELSE Head(s).n + StrLen(Tail(s))

\* content[:k]
RECURSIVE Slice(_, _)
Slice(s, k) ==
    IF s = <<>> \/ k <= 0 THEN <<>>
    ELSE IF Head(s).n <= k
         THEN <<Head(s)>> \o Slice(Tail(s), k - Head(s).n)
         ELSE <<Run(Head(s).c, k, Head(s).t)>>

\* 'data:image/jpeg;base64,' in content
HasMarker(s) == \E i \in 1..Len(s) : s[i].c = "M" /\ s[i].n = MARKER_LEN

\* content.replace('data:image/jpeg;base64,', '[image data removed]')
ReplaceMarker(s) ==
    [i \in 1..Len(s) |->
        IF s[i].c = "M" /\ s[i].n = MARKER_LEN
        THEN Run("R", PLACEHOLDER_LEN, s[i].t) ELSE s[i]]

\* the characters of the inline payload occur in s
HasPayloadChars(s) == \E i \in 1..Len(s) : s[i].c = "p" /\ s[i].n > 0

\* the whole placeholder token occurs in s
HasPlaceholder(s) == \E i \in 1..Len(s) : s[i].c = "R" /\ s[i].n = PLACEHOLDER_LEN

Msg(role, content) == [role |-> role, content |-> content]

RoleLen(role) == IF role = "user" THEN 4 ELSE 9

\* ------------------------------------------------------------------- codec
(* zlib.compress(json.dumps(...).encode('utf-8')): the number of bytes     *)
(* deflate needs for a run.  The rates are those zlib shows on such text:  *)
(* 6 bits a character for high-entropy ASCII and for base64 payload, 2.75  *)
(* bytes a character for non-ASCII text (json.dumps escapes every          *)
(* character as \uXXXX), a few bytes per thousand for a repeated           *)
(* character, and the literal's own size for the fixed literals.           *)
RunBytes(r) ==
    CASE r.c = "a"  -> (r.n * 3) \div 4
      [] r.c = "p"  -> (r.n * 3) \div 4
      [] r.c = "u"  -> (r.n * 11) \div 4
      [] r.c = "x"  -> IF r.n = 0 THEN 0 ELSE 1 + r.n \div 400
      [] r.c = "T1" -> 51
      [] r.c = "T2" -> 55
      [] OTHER      -> r.n

RECURSIVE StrBytes(_)
StrBytes(s) == IF s = <<>> THEN 0 ELSE RunBytes(Head(s)) + StrBytes(Tail(s))

\* bytes of one message inside the deflate stream: the framing
\* {"role":"..","content":".."} costs 27 bytes the first time and 8 once
\* it repeats an earlier message's framing
RECURSIVE ConvBytes(_, _)
ConvBytes(conv, first) ==
    IF conv = <<>> THEN 0
    ELSE (IF first THEN 27 ELSE 8) + StrBytes(Head(conv).content)
         + ConvBytes(Tail(conv), FALSE)

\* len(zlib.compress(json_str.encode('utf-8'))); 10 bytes for "[]"
ZlibLen(conv) == 10 + ConvBytes(conv, TRUE)

\* len(base64.b64encode(b)) for len(b) = n
B64Len(n) == 4 * ((n + 2) \div 3)

(* A value of session['conversation_compressed'] is [ok, conv, n]: a       *)
(* string of n characters of which ok decoding stages succeed              *)
(*   0 not base64      1 base64, not zlib data    2 zlib data, not JSON    *)
(*   3 JSON, not a list                4 the JSON list conv                *)
Payload(ok, conv, n) == [ok |-> ok, conv |-> conv, n |-> n]

_compress_conversation(conversation) ==
    Payload(4, conversation, B64Len(ZlibLen(conversation)))

(* A call gives [raised, value]: it raised an exception that is not a      *)
(* RuntimeError, or it returned value.                                     *)
Returned(value) == [raised |-> FALSE, value |-> value]
Raised == [raised |-> TRUE, value |-> <<>>]

\* as _decompress_conversation without its try/except
_decompress_conversation_uncaught(compressed_data) ==
    IF compressed_data.n = 0 THEN Returned(<<>>)
    ELSE IF compressed_data.ok < 3 THEN Raised
    ELSE IF compressed_data.ok < 4 THEN Returned(<<>>)
    ELSE Returned(compressed_data.conv)

\* every failure of a decoding stage is caught by "except Exception"
_decompress_conversation(compressed_data) ==
    IF compressed_data.n = 0 THEN Returned(<<>>)        \* not compressed_data
    ELSE IF compressed_data.ok < 1 THEN Returned(<<>>)  \* b64decode raises
    ELSE IF compressed_data.ok < 2 THEN Returned(<<>>)  \* zlib.decompress raises
    ELSE IF compressed_data.ok < 3 THEN Returned(<<>>)  \* json.loads raises
    ELSE IF compressed_data.ok < 4 THEN Returned(<<>>)  \* not isinstance(list)
    ELSE Returned(compressed_data.conv)

\* ----------------------------------------------------------------- session
(* The Flask session of one browser: the two conversation keys.  has_cc    *)
(* and has_legacy say whether the key is in the dict; an absent key keeps  *)
(* the value NoPayload, or the empty list.  msg says whether the key       *)
(* 'settings_message' of the settings routes is in the dict.  modified is  *)
(* session.modified                                                        *)
(* as the last operation that reached the session left it, each operation  *)
(* starting from False.                                                    *)
NoPayload == Payload(0, <<>>, 0)

EmptySession ==
    [has_cc |-> FALSE, cc |-> NoPayload,
     has_legacy |-> FALSE, legacy |-> <<>>, msg |-> FALSE, modified |-> FALSE]

\* len(repr(content)), utf-8 encoded
RECURSIVE ReprBytes(_)
ReprBytes(s) ==
    IF s = <<>> THEN 0
    ELSE (CASE Head(s).c = "u"  -> 3 * Head(s).n
            [] Head(s).c = "T1" -> Head(s).n + 2
            [] Head(s).c = "T2" -> Head(s).n + 2
            [] OTHER            -> Head(s).n)
         + ReprBytes(Tail(s))

RECURSIVE ListReprBytes(_)
ListReprBytes(l) ==
    IF l = <<>> THEN 0
    ELSE 27 + RoleLen(Head(l).role) + ReprBytes(Head(l).content)
         + (IF Tail(l) = <<>> THEN 0 ELSE 2) + ListReprBytes(Tail(l))

\* the ", " between the entries of the dict
Separators(s) ==
    LET k == (IF s.has_cc THEN 1 ELSE 0) + (IF s.has_legacy THEN 1 ELSE 0)
             + (IF s.msg THEN 1 ELSE 0)
    IN  IF k > 1 THEN 2 * (k - 1) ELSE 0

\* len(str(session).encode('utf-8')) of "<SecureCookieSession {...}>"
SessionStrLen(s) ==
    24
    + (IF s.has_cc THEN 29 + s.cc.n ELSE 0)
    + (IF s.has_legacy THEN 18 + ListReprBytes(s.legacy) ELSE 0)
    + (IF s.msg THEN SETTINGS_MESSAGE_LEN ELSE 0)
    + Separators(s)

\* len(repr(content)) in characters
RECURSIVE ReprChars(_)
ReprChars(s) ==
    IF s = <<>> THEN 0
    ELSE (CASE Head(s).c = "T1" -> Head(s).n + 2
            [] Head(s).c = "T2" -> Head(s).n + 2
            [] OTHER            -> Head(s).n)
         + ReprChars(Tail(s))

RECURSIVE ListReprChars(_)
ListReprChars(l) ==
    IF l = <<>> THEN 0
    ELSE 27 + RoleLen(Head(l).role) + ReprChars(Head(l).content)
         + (IF Tail(l) = <<>> THEN 0 ELSE 2) + ListReprChars(Tail(l))

\* len(str(session)), in characters
SessionStrChars(s) ==
    24
    + (IF s.has_cc THEN 29 + s.cc.n ELSE 0)
    + (IF s.has_legacy THEN 18 + ListReprChars(s.legacy) ELSE 0)
    + (IF s.msg THEN SETTINGS_MESSAGE_LEN ELSE 0)
    + Separators(s)

(* How an operation finds the session:                                     *)
(*   "request"  inside a request, the session works                        *)
(*   "broken"   inside a request, every session access raises RuntimeError *)
(*   "outside"  no request context: every session access raises            *)
(*              RuntimeError and has_request_context() is False            *)
Contexts == {"request", "broken", "outside"}
has_request_context(ctx) == ctx # "outside"
SessionRaises(ctx) == ctx # "request"

\* _get_current_session_size()
_get_current_session_size(s, ctx) ==
    IF SessionRaises(ctx) THEN 0 ELSE SessionStrLen(s)

\* --------------------------------------------------------------------- read
\* as ReadValue, the legacy key consulted first
ReadValue_legacyFirst(s, ctx) ==
    IF SessionRaises(ctx) THEN <<>>
    ELSE IF s.has_legacy /\ s.legacy # <<>> THEN s.legacy
    ELSE IF s.has_cc /\ s.cc.n > 0 THEN _decompress_conversation(s.cc).value
    ELSE <<>>

\* get_conversation_history(): the value returned
ReadValue(s, ctx) ==
    IF SessionRaises(ctx) THEN <<>>
    ELSE IF s.has_cc /\ s.cc.n > 0 THEN _decompress_conversation(s.cc).value
    ELSE IF s.has_legacy /\ s.legacy # <<>> THEN s.legacy
    ELSE <<>>

\* as ReadOutcome, the RuntimeError raised again inside a request context
ReadOutcome_reraises(s, ctx) ==
    IF SessionRaises(ctx)
    THEN (IF has_request_context(ctx) THEN "raised" ELSE "ok")
    ELSE IF s.has_cc /\ s.cc.n > 0 /\ _decompress_conversation(s.cc).raised
         THEN "raised" ELSE "ok"

\* get_conversation_history(): returns or raises.  Its except clause
\* catches RuntimeError only.
ReadOutcome(s, ctx) ==
    IF ~SessionRaises(ctx) /\ s.has_cc /\ s.cc.n > 0
       /\ _decompress_conversation(s.cc).raised
    THEN "raised" ELSE "ok"

\* as ReadSession, the migration forgetting session.pop('conversation')
ReadSession_keepsLegacy(s, ctx) ==
    IF SessionRaises(ctx) THEN s
    ELSE IF s.has_cc /\ s.cc.n > 0 THEN [s EXCEPT !.modified = FALSE]
    ELSE IF s.has_legacy /\ s.legacy # <<>>
         THEN [s EXCEPT !.has_cc = TRUE, !.cc = _compress_conversation(s.legacy),
                        !.modified = TRUE]
    ELSE [s EXCEPT !.modified = FALSE]

\* get_conversation_history(): the session it leaves
ReadSession(s, ctx) ==
    IF SessionRaises(ctx) THEN s
    ELSE IF s.has_cc /\ s.cc.n > 0 THEN [s EXCEPT !.modified = FALSE]
    ELSE IF s.has_legacy /\ s.legacy # <<>>
         THEN [s EXCEPT !.has_cc = TRUE, !.cc = _compress_conversation(s.legacy),
                        !.has_legacy = FALSE, !.legacy = <<>>, !.modified = TRUE]
    ELSE [s EXCEPT !.modified = FALSE]

\* ------------------------------------------------------------------- append
\* as _process_multimodal_content_light, without the safety net
_process_multimodal_content_light_noCap(content) ==
    IF HasMarker(content) THEN ReplaceMarker(content) ELSE content

_process_multimodal_content_light(content) ==
    LET c1 == IF HasMarker(content) THEN ReplaceMarker(content) ELSE content
    IN  IF StrLen(c1) > LIGHT_LIMIT
        THEN Slice(c1, LIGHT_KEEP) \o <<LightMark>>
        ELSE c1

\* as TruncateNewMessage, leaving no room for the marker
TruncateNewMessage_noRoom(new_message) ==
    LET max_content_size == SESSION_LIMIT - MESSAGE_OVERHEAD - CONTENT_BUFFER
    IN  IF StrLen(new_message.content) > max_content_size
        THEN Msg(new_message.role,
                 Slice(new_message.content, max_content_size) \o <<HardMark>>)
        ELSE new_message

\* the last resort of _apply_intelligent_truncation: new_message alone
TruncateNewMessage(new_message) ==
    LET max_content_size == SESSION_LIMIT - MESSAGE_OVERHEAD - CONTENT_BUFFER
    IN  IF StrLen(new_message.content) > max_content_size
        THEN Msg(new_message.role,
                 Slice(new_message.content, max_content_size - MARKER_ROOM)
                    \o <<HardMark>>)
        ELSE new_message

\* as EvictLoop, popping the newest old message: pop() for pop(0)
RECURSIVE EvictLoop_newestFirst(_, _)
EvictLoop_newestFirst(working_conversation, new_message) ==
    IF Len(working_conversation) > 0
    THEN LET test_conv == working_conversation \o <<new_message>>
             test_size == _compress_conversation(test_conv).n + MESSAGE_OVERHEAD
         IN  IF test_size <= SESSION_LIMIT
             THEN test_conv
             ELSE EvictLoop_newestFirst(
                      SubSeq(working_conversation, 1, Len(working_conversation) - 1),
                      new_message)
    ELSE <<TruncateNewMessage(new_message)>>

\* as EvictLoop, giving up on a new message that does not fit alone
RECURSIVE EvictLoop_dropsNew(_, _)
EvictLoop_dropsNew(working_conversation, new_message) ==
    IF Len(working_conversation) > 0
    THEN LET test_conv == working_conversation \o <<new_message>>
             test_size == _compress_conversation(test_conv).n + MESSAGE_OVERHEAD
         IN  IF test_size <= SESSION_LIMIT
             THEN test_conv
             ELSE EvictLoop_dropsNew(Tail(working_conversation), new_message)
    ELSE <<>>

\* as EvictLoop, popping the two oldest messages at a time
RECURSIVE EvictLoop_popsTwo(_, _)
EvictLoop_popsTwo(working_conversation, new_message) ==
    IF Len(working_conversation) > 0
    THEN LET test_conv == working_conversation \o <<new_message>>
             test_size == _compress_conversation(test_conv).n + MESSAGE_OVERHEAD
         IN  IF test_size <= SESSION_LIMIT
             THEN test_conv
             ELSE EvictLoop_popsTwo(
                      IF Len(working_conversation) > 1
                      THEN Tail(Tail(working_conversation))
                      ELSE <<>>,
                      new_message)
    ELSE <<TruncateNewMessage(new_message)>>

\* as EvictLoop, popping the oldest message before the first size test
RECURSIVE EvictLoop_popsFirst(_, _)
EvictLoop_popsFirst(working_conversation, new_message) ==
    IF Len(working_conversation) > 0
    THEN LET test_conv == Tail(working_conversation) \o <<new_message>>
             test_size == _compress_conversation(test_conv).n + MESSAGE_OVERHEAD
         IN  IF test_size <= SESSION_LIMIT
             THEN test_conv
             ELSE EvictLoop_popsFirst(Tail(working_conversation), new_message)
    ELSE <<TruncateNewMessage(new_message)>>

\* the while loop of _apply_intelligent_truncation
RECURSIVE EvictLoop(_, _)
EvictLoop(working_conversation, new_message) ==
    IF Len(working_conversation) > 0
    THEN LET test_conv == working_conversation \o <<new_message>>
             test_size == _compress_conversation(test_conv).n + MESSAGE_OVERHEAD
         IN  IF test_size <= SESSION_LIMIT
             THEN test_conv
             ELSE EvictLoop(Tail(working_conversation), new_message)
    ELSE <<TruncateNewMessage(new_message)>>

\* as _apply_intelligent_truncation, the new message put in front
_apply_intelligent_truncation_prepends(conversation, new_message, current_session_size) ==
    LET test_conversation == <<new_message>> \o conversation
        estimated_session_size ==
            current_session_size + _compress_conversation(test_conversation).n
    IN  IF estimated_session_size <= SESSION_LIMIT
        THEN test_conversation
        ELSE EvictLoop(conversation, new_message)

_apply_intelligent_truncation(conversation, new_message, current_session_size) ==
    LET test_conversation == conversation \o <<new_message>>
        estimated_session_size ==
            current_session_size + _compress_conversation(test_conversation).n
    IN  IF estimated_session_size <= SESSION_LIMIT
        THEN test_conversation
        ELSE EvictLoop(conversation, new_message)


\* as AppendHistory, the budget decided on the content as passed and the
\* pre-processed content stored
AppendHistory_measuresRaw(s, role, content, ctx) ==
    LET conversation == ReadValue(s, ctx)
        current_session_size == _get_current_session_size(ReadSession(s, ctx), ctx)
        processed_content == _process_multimodal_content_light(content)
        h == _apply_intelligent_truncation(conversation, Msg(role, content),
                                           current_session_size)
    IN  IF h[Len(h)].content = content
        THEN [h EXCEPT ![Len(h)] = Msg(role, processed_content)]
        ELSE h

\* add_to_conversation(role, content): the history it computes
AppendHistory(s, role, content, ctx) ==
    LET conversation == ReadValue(s, ctx)
        current_session_size == _get_current_session_size(ReadSession(s, ctx), ctx)
        processed_content == _process_multimodal_content_light(content)
        new_message == Msg(role, processed_content)
    IN  _apply_intelligent_truncation(conversation, new_message, current_session_size)

\* as AppendSession, a content over the absolute ceiling given up
AppendSession_rejectsOversized(s, role, content, ctx) ==
    IF SessionRaises(ctx) \/ ReadOutcome(s, ctx) = "raised" THEN s
    ELSE IF StrLen(content) > LIGHT_LIMIT THEN [s EXCEPT !.modified = FALSE]
    ELSE [s EXCEPT
             !.has_cc = TRUE,
             !.cc = _compress_conversation(AppendHistory(s, role, content, ctx)),
             !.has_legacy = FALSE, !.legacy = <<>>, !.modified = TRUE]

\* as AppendSession, forgetting session.pop('conversation', None)
AppendSession_keepsLegacy(s, role, content, ctx) ==
    IF SessionRaises(ctx) \/ ReadOutcome(s, ctx) = "raised" THEN s
    ELSE [ReadSession(s, ctx) EXCEPT
             !.has_cc = TRUE,
             !.cc = _compress_conversation(AppendHistory(s, role, content, ctx)),
             !.modified = TRUE]

\* add_to_conversation(role, content): the session it leaves.  When the
\* session raises, get_conversation_history and _get_current_session_size
\* catch the RuntimeError themselves, and session.pop raises it again.
AppendSession(s, role, content, ctx) ==
    IF SessionRaises(ctx) \/ ReadOutcome(s, ctx) = "raised" THEN s
    ELSE [s EXCEPT
             !.has_cc = TRUE,
             !.cc = _compress_conversation(AppendHistory(s, role, content, ctx)),
             !.has_legacy = FALSE, !.legacy = <<>>, !.modified = TRUE]

\* as AppendOutcome, the RuntimeError of the session swallowed everywhere
AppendOutcome_swallows(s, ctx) ==
    IF ReadOutcome(s, ctx) = "raised" THEN "raised" ELSE "ok"

\* add_to_conversation(role, content): returns or raises
AppendOutcome(s, ctx) ==
    IF ReadOutcome(s, ctx) = "raised" THEN "raised"
    ELSE IF SessionRaises(ctx) /\ has_request_context(ctx) THEN "raised"
    ELSE "ok"

\* -------------------------------------------------------------------- clear
\* as ClearSession, removing the compressed key only
ClearSession_keepsLegacy(s, ctx) ==
    IF SessionRaises(ctx) THEN s
    ELSE [s EXCEPT !.has_cc = FALSE, !.cc = NoPayload, !.modified = TRUE]

\* clear_conversation()
ClearSession(s, ctx) ==
    IF SessionRaises(ctx) THEN s
    ELSE [s EXCEPT !.has_cc = FALSE, !.cc = NoPayload,
                   !.has_legacy = FALSE, !.legacy = <<>>, !.modified = TRUE]

\* ---------------------------------------------------------------- web layer
\* as CheckConfigurationSession, cleaning up whatever the size
CheckConfigurationSession_always(s, ctx) ==
    IF ctx = "request"
    THEN [s EXCEPT !.has_cc = FALSE, !.cc = NoPayload,
                   !.has_legacy = FALSE, !.legacy = <<>>, !.modified = TRUE]
    ELSE [s EXCEPT !.modified = FALSE]

\* check_configuration(), the before_request hook of app.py: the session
\* it leaves.  str() of the null session of a broken request is short.
CheckConfigurationSession(s, ctx) ==
    IF ctx = "request" /\ SessionStrChars(s) > CLEANUP_LIMIT
    THEN [s EXCEPT !.has_cc = FALSE, !.cc = NoPayload,
                   !.has_legacy = FALSE, !.legacy = <<>>, !.modified = TRUE]
    ELSE [s EXCEPT !.modified = FALSE]

\* ------------------------------------------------------------------- inputs
Roles == {"user", "assistant"}

Hi       == <<Run("a", 2, 1)>>
Para     == <<Run("a", 1200, 3)>>
Essay    == <<Run("a", 3000, 4)>>
Novel    == <<Run("a", 9000, 5)>>
Filler   == <<Run("x", 9000, 6)>>
Cjk      == <<Run("u", 1000, 7)>>
Thumb    == <<Run("a", 6, 8), Run("M", MARKER_LEN, 8), Run("p", 40, 8)>>
Photo    == <<Run("M", MARKER_LEN, 9), Run("p", 1000000, 9)>>
Banner   == <<Run("M", MARKER_LEN, 10), Run("x", 7978, 10)>>
Mixed    == <<Run("x", 7000, 11), Run("a", 2000, 11)>>

Contents == {Hi, Para, Essay, Novel, Filler, Cjk, Thumb, Photo, Banner, Mixed}

\* the contents offered to an append: where the session raises, the shortest
\* and the longest, since no step that looks at the content reaches the
\* session; the assistant's replies are plain text, images come from the user
ContentsOffered(role, ctx) ==
    IF ctx # "request" THEN {Hi, Photo}
    ELSE IF role = "assistant" THEN {Hi, Para, Essay}
    ELSE Contents

\* what a cookie written by an earlier release holds under 'conversation'
LegacyLists ==
    { <<Msg("user", Hi)>>,
      <<Msg("user", Para), Msg("assistant", Hi)>>,
      <<Msg("user", Cjk)>>,
      <<Msg("user", Para), Msg("assistant", Para), Msg("user", Para)>> }

\* what a corrupted 'conversation_compressed' holds
Garbage ==
    { Payload(0, <<>>, 40), Payload(1, <<>>, 40), Payload(2, <<>>, 40),
      Payload(3, <<>>, 40), Payload(1, <<>>, 4000) }

\* ------------------------------------------------------------------- system
VARIABLES session, context, last, log, clean

\* the store: the session cookie of one browser and what is observed of it
storeVars == <<session, context, last, log, clean>>

\* one call of _apply_intelligent_truncation, statement by statement
VARIABLES conversation, new_message, working_conversation, loop_pc, probes, result

loopVars == <<conversation, new_message, working_conversation, loop_pc, probes, result>>

\* two requests that carry the cookie of one browser: the cookie the
\* browser holds, and for each request where it stands and the session it
\* works on
VARIABLES cookie, reqs

raceVars == <<cookie, reqs>>

\* one POST to the chat route: where the route stands, what the
\* configuration holds, the message posted and the message the route kept,
\* the list handed to the model, the number of messages the route accepted
\* so far, how the last POST ended, and the history the request found
VARIABLES chat_pc, config_state, posted, user_message, messages, turn, completed, found_history

chatVars == <<chat_pc, config_state, posted, user_message, messages, turn, completed, found_history>>

\* the client cache of AzureClientManager: the configuration and the
\* environment get_client reads, the fields of the manager, the arguments
\* the cached client was constructed with, the clients constructed so far
\* and what the last call found and did
VARIABLES endpoint, api_key, api_version, use_managed_identity, credential_ok,
          _client, _last_endpoint, _last_api_key, _last_auth_mode,
          built, clients_created, called

clientVars == <<endpoint, api_key, api_version, use_managed_identity, credential_ok,
                _client, _last_endpoint, _last_api_key, _last_auth_mode,
                built, clients_created, called>>

\* the configuration manager of one process after another: the mode
\* detected at construction, the configuration held, the settings file, the
\* key vault and whether a client for it exists, whether the file can be
\* written, and what the last save found and did
VARIABLES is_production, manager_config, settings_file, key_vault, vault_client,
          file_writable, saved

configVars == <<is_production, manager_config, settings_file, key_vault, vault_client,
                file_writable, saved>>

vars == <<storeVars, loopVars, raceVars, chatVars, clientVars, configVars>>

\* no call of _apply_intelligent_truncation is being followed
LoopIdle ==
    /\ conversation = <<>>
    /\ new_message = Msg("user", <<>>)
    /\ working_conversation = <<>>
    /\ loop_pc = "idle"
    /\ probes = 0
    /\ result = <<>>

\* no pair of requests is being followed
RaceIdle ==
    /\ cookie = EmptySession
    /\ reqs = <<>>

\* no POST to the chat route is being followed
ChatIdle ==
    /\ chat_pc = "idle"
    /\ config_state = [endpoint |-> "set", api_key |-> "set", model |-> "set"]
    /\ posted = <<>>
    /\ user_message = <<>>
    /\ messages = <<>>
    /\ turn = 0
    /\ completed = "none"
    /\ found_history = <<>>

\* the arguments of a client that was never constructed, and the record of
\* a call that was never made
NotBuilt ==
    [endpoint |-> "None", api_key |-> "None", auth_mode |-> "None",
     azure_endpoint |-> "None", api_version |-> "None"]

NotCalled ==
    [outcome |-> "none", created |-> FALSE, returned |-> 0,
     endpoint |-> "", api_key |-> "", auth_mode |-> FALSE,
     client |-> 0, last_endpoint |-> "None", last_api_key |-> "None",
     last_auth_mode |-> "None"]

\* no client manager is being followed
ClientIdle ==
    /\ endpoint = ""
    /\ api_key = ""
    /\ api_version = "v1"
    /\ use_managed_identity = FALSE
    /\ credential_ok = TRUE
    /\ _client = 0
    /\ _last_endpoint = "None"
    /\ _last_api_key = "None"
    /\ _last_auth_mode = "None"
    /\ built = NotBuilt
    /\ clients_created = 0
    /\ called = NotCalled

\* the defaults of UnifiedConfig, a settings file that does not exist (an
\* entry the file lacks is "-"), a key vault without secrets and the record
\* of a save that was never made
DefaultConfig == [endpoint |-> "", api_key |-> "", model |-> "m1"]

NoFile == [exists |-> FALSE, endpoint |-> "-", api_key |-> "-", model |-> "-"]

EmptyVault == [endpoint |-> "-", api_key |-> "-"]

NotSaved ==
    [op |-> "none", production |-> FALSE, result |-> FALSE, vault_client |-> FALSE,
     secrets_set |-> FALSE, file_written |-> FALSE, config |-> DefaultConfig,
     file |-> NoFile, vault |-> EmptyVault]

\* no configuration manager is being followed
ConfigIdle ==
    /\ is_production = FALSE
    /\ manager_config = DefaultConfig
    /\ settings_file = NoFile
    /\ key_vault = EmptyVault
    /\ vault_client = FALSE
    /\ file_writable = TRUE
    /\ saved = NotSaved

\* the store is not in use
StoreIdle ==
    /\ session = EmptySession
    /\ context = "outside"
    /\ last = [op |-> "init", ctx |-> "outside", role |-> "user", content |-> <<>>,
               prior |-> EmptySession, outcome |-> "ok", value |-> <<>>]
    /\ log = <<>>
    /\ clean = TRUE

\* everything but the store, but the call followed, but the two requests,
\* and what a POST to the chat route leaves alone besides the store
notStore == <<loopVars, raceVars, chatVars, clientVars, configVars>>
notLoop == <<storeVars, raceVars, chatVars, clientVars, configVars>>
notRace == <<storeVars, loopVars, chatVars, clientVars, configVars>>
notChat == <<loopVars, raceVars, clientVars, configVars>>
notClient == <<storeVars, loopVars, raceVars, chatVars, configVars>>
notConfig == <<storeVars, loopVars, raceVars, chatVars, clientVars>>

(* context is "outside" between two requests, and inside a request how     *)
(* the request finds the session, "request" or "broken".                   *)

(* last is what the last operation was given and gave: its name, the       *)
(* context, the role and content passed, the session it found, whether it  *)
(* returned or raised, and the value returned by a read.                   *)
Obs(op, ctx, role, content, prior, outcome, value) ==
    [op |-> op, ctx |-> ctx, role |-> role, content |-> content,
     prior |-> prior, outcome |-> outcome, value |-> value]

(* log is the roles and contents passed to the appends made since the      *)
(* session was last empty, as long as clean holds: the session started     *)
(* empty (or was cleared) and no append since evicted a message or         *)
(* truncated a content, and nothing corrupted the payload.                 *)
Evicts(s, role, content, ctx) ==
    Len(AppendHistory(s, role, content, ctx)) < Len(ReadValue(s, ctx)) + 1

LightTruncates(content) ==
    _process_multimodal_content_light(content)
        # (IF HasMarker(content) THEN ReplaceMarker(content) ELSE content)

HardTruncates(s, role, content, ctx) ==
    LET h == AppendHistory(s, role, content, ctx)
    IN  h[Len(h)].content # _process_multimodal_content_light(content)

InitialSessions ==
    {EmptySession}
    \cup {[EmptySession EXCEPT !.has_legacy = TRUE, !.legacy = l] : l \in LegacyLists}
    \cup {[EmptySession EXCEPT !.has_legacy = TRUE, !.legacy = l,
                               !.has_cc = TRUE,
                               !.cc = _compress_conversation(<<Msg("assistant", Hi)>>)]
            : l \in LegacyLists}

Init ==
    /\ session \in InitialSessions
    /\ context = "outside"
    /\ last = Obs("init", "outside", "user", <<>>, session, "ok", <<>>)
    /\ log = <<>>
    /\ clean = (session = EmptySession)
    /\ LoopIdle
    /\ RaceIdle
    /\ ChatIdle
    /\ ClientIdle
    /\ ConfigIdle

\* a request arrives: Flask runs the before_request hook
check_configuration(ctx) ==
    /\ UNCHANGED notStore
    /\ context = "outside"
    /\ ctx # "outside"
    /\ context' = ctx
    /\ session' = CheckConfigurationSession(session, ctx)
    /\ last' = Obs("check_configuration", ctx, "user", <<>>, session, "ok", <<>>)
    /\ IF session'.has_cc = session.has_cc /\ session'.has_legacy = session.has_legacy
       THEN UNCHANGED <<log, clean>>
       ELSE log' = <<>> /\ clean' = TRUE

\* the route handler returns and the response carries the session cookie
finish_request ==
    /\ UNCHANGED notStore
    /\ context # "outside"
    /\ context' = "outside"
    /\ UNCHANGED <<session, last, log, clean>>

\* POST /settings: update_settings() leaves a message for the next page
update_settings ==
    /\ UNCHANGED notStore
    /\ context = "request"
    /\ ~session.msg
    /\ session' = [session EXCEPT !.msg = TRUE, !.modified = TRUE]
    /\ last' = Obs("update_settings", context, "user", <<>>, session, "ok", <<>>)
    /\ UNCHANGED <<context, log, clean>>

\* GET /settings: settings() pops the message
settings ==
    /\ UNCHANGED notStore
    /\ context = "request"
    /\ session.msg
    /\ session' = [session EXCEPT !.msg = FALSE, !.modified = TRUE]
    /\ last' = Obs("settings", context, "user", <<>>, session, "ok", <<>>)
    /\ UNCHANGED <<context, log, clean>>

add_to_conversation(role, content, ctx) ==
    /\ UNCHANGED notStore
    /\ ctx = context
    /\ Len(ReadValue(session, "request")) <= MaxHist
    /\ session' = AppendSession(session, role, content, ctx)
    /\ last' = Obs("append", ctx, role, content, session, AppendOutcome(session, ctx), <<>>)
    /\ UNCHANGED context
    /\ IF SessionRaises(ctx) \/ ReadOutcome(session, ctx) = "raised"
       THEN UNCHANGED <<log, clean>>
       ELSE LET ok == /\ clean
                      /\ ~Evicts(session, role, content, ctx)
                      /\ ~LightTruncates(content)
                      /\ ~HardTruncates(session, role, content, ctx)
            IN  /\ clean' = ok
                /\ log' = IF ok THEN Append(log, Msg(role, content)) ELSE <<>>

get_conversation_history(ctx) ==
    /\ UNCHANGED notStore
    /\ ctx = context
    /\ session' = ReadSession(session, ctx)
    /\ last' = Obs("read", ctx, "user", <<>>, session, ReadOutcome(session, ctx),
                   ReadValue(session, ctx))
    /\ UNCHANGED <<context, log, clean>>

clear_conversation(ctx) ==
    /\ UNCHANGED notStore
    /\ ctx = context
    /\ UNCHANGED context
    /\ session' = ClearSession(session, ctx)
    /\ last' = Obs("clear", ctx, "user", <<>>, session, "ok", <<>>)
    /\ IF SessionRaises(ctx)
       THEN UNCHANGED <<log, clean>>
       ELSE log' = <<>> /\ clean' = TRUE

\* code with a working session overwrites 'conversation_compressed' with
\* garbage
Corrupt(g) ==
    /\ UNCHANGED notStore
    /\ context = "request"
    /\ UNCHANGED context
    /\ session' = [session EXCEPT !.has_cc = TRUE, !.cc = g, !.modified = TRUE]
    /\ last' = Obs("corrupt", "request", "user", <<>>, session, "ok", <<>>)
    /\ log' = <<>>
    /\ clean' = FALSE

Next ==
    \/ \E role \in Roles, ctx \in Contexts :
          \E content \in ContentsOffered(role, ctx) :
             add_to_conversation(role, content, ctx)
    \/ \E ctx \in Contexts : get_conversation_history(ctx)
    \/ \E ctx \in Contexts : clear_conversation(ctx)
    \/ \E g \in Garbage : Corrupt(g)
    \/ \E ctx \in Contexts : check_configuration(ctx)
    \/ finish_request
    \/ update_settings
    \/ settings

Spec == Init /\ [][Next]_vars

\* --------------------------------------- the budget step, statement by statement
\* the messages of the histories and the new messages handed to the call
LoopMessages == {Msg("user", Hi), Msg("user", Para), Msg("assistant", Essay)}

LoopHistories == UNION {[1..k -> LoopMessages] : k \in 0..MaxLoopHist}

LoopNewMessages ==
    {Msg("assistant", _process_multimodal_content_light(c)) : c \in {Hi, Para, Novel, Filler}}

\* the session add_to_conversation measures before the call
LoopSession(h) ==
    IF h = <<>> THEN EmptySession
    ELSE [EmptySession EXCEPT !.has_cc = TRUE, !.cc = _compress_conversation(h)]

\* as LoopIteration, popping the two oldest messages
LoopIteration_popsTwo(working, message) ==
    LET test_conv == working \o <<message>>
        test_size == _compress_conversation(test_conv).n + MESSAGE_OVERHEAD
    IN  IF test_size <= SESSION_LIMIT
        THEN [returned |-> TRUE, value |-> test_conv, working |-> working]
        ELSE [returned |-> FALSE, value |-> <<>>,
              working |-> IF Len(working) > 1 THEN Tail(Tail(working)) ELSE <<>>]

\* one iteration of the while loop: the size probe, then return or pop(0)
LoopIteration(working, message) ==
    LET test_conv == working \o <<message>>
        test_size == _compress_conversation(test_conv).n + MESSAGE_OVERHEAD
    IN  IF test_size <= SESSION_LIMIT
        THEN [returned |-> TRUE, value |-> test_conv, working |-> working]
        ELSE [returned |-> FALSE, value |-> <<>>, working |-> Tail(working)]

InitLoop ==
    /\ StoreIdle
    /\ RaceIdle
    /\ ChatIdle
    /\ ClientIdle
    /\ ConfigIdle
    /\ conversation \in LoopHistories
    /\ new_message \in LoopNewMessages
    /\ working_conversation = <<>>
    /\ loop_pc = "start"
    /\ probes = 0
    /\ result = <<>>

\* the first size test, before the loop
FirstCheck ==
    /\ loop_pc = "start"
    /\ LET test_conversation == conversation \o <<new_message>>
           estimated_session_size ==
               SessionStrLen(LoopSession(conversation))
                   + _compress_conversation(test_conversation).n
       IN  IF estimated_session_size <= SESSION_LIMIT
           THEN /\ result' = test_conversation
                /\ loop_pc' = "returned"
                /\ UNCHANGED working_conversation
           ELSE /\ working_conversation' = conversation
                /\ loop_pc' = "while"
                /\ UNCHANGED result
    /\ UNCHANGED <<conversation, new_message, probes>>
    /\ UNCHANGED notLoop

\* one pass through the body of the while loop
LoopStep ==
    /\ loop_pc = "while"
    /\ Len(working_conversation) > 0
    /\ LET it == LoopIteration(working_conversation, new_message)
       IN  /\ probes' = probes + 1
           /\ working_conversation' = it.working
           /\ IF it.returned
              THEN result' = it.value /\ loop_pc' = "returned"
              ELSE UNCHANGED <<result, loop_pc>>
    /\ UNCHANGED <<conversation, new_message>>
    /\ UNCHANGED notLoop

\* the loop condition fails: the last resort
LastResort ==
    /\ loop_pc = "while"
    /\ Len(working_conversation) = 0
    /\ result' = <<TruncateNewMessage(new_message)>>
    /\ loop_pc' = "returned"
    /\ UNCHANGED <<conversation, new_message, working_conversation, probes>>
    /\ UNCHANGED notLoop

NextLoop == FirstCheck \/ LoopStep \/ LastResort

SpecLoop == InitLoop /\ [][NextLoop]_vars /\ WF_vars(NextLoop)

\* ------------------------------------------ two requests with one cookie
(* The session is a signed cookie: Flask opens it from the cookie of the   *)
(* request, the handlers work on that copy, and the response carries the   *)
(* copy back when it was modified.  The browser keeps the cookie of the    *)
(* response it received last.                                              *)
Requests == {1, 2}

RaceContents == {Hi, Para, Cjk}

RaceCookies == {EmptySession, LoopSession(<<Msg("assistant", Para)>>)}

InitRace ==
    /\ StoreIdle
    /\ LoopIdle
    /\ ChatIdle
    /\ ClientIdle
    /\ ConfigIdle
    /\ cookie \in RaceCookies
    /\ reqs = [r \in Requests |->
                  [pc |-> "waiting", found |-> EmptySession,
                   session |-> EmptySession, message |-> Msg("user", <<>>)]]

\* the request arrives with the cookie the browser holds; the
\* before_request hook runs on the session opened from it
Receive(r) ==
    /\ reqs[r].pc = "waiting"
    /\ reqs' = [reqs EXCEPT ![r].pc = "handling",
                            ![r].found = cookie,
                            ![r].session = CheckConfigurationSession(cookie, "request")]
    /\ UNCHANGED cookie
    /\ UNCHANGED notRace

\* the route handler appends to the session of its request
Handle(r, role, content) ==
    /\ reqs[r].pc = "handling"
    /\ reqs' = [reqs EXCEPT ![r].pc = "responding",
                            ![r].session = AppendSession(reqs[r].session, role, content, "request"),
                            ![r].message = Msg(role, _process_multimodal_content_light(content))]
    /\ UNCHANGED cookie
    /\ UNCHANGED notRace

\* the response reaches the browser with the session of its request
Respond(r) ==
    /\ reqs[r].pc = "responding"
    /\ reqs' = [reqs EXCEPT ![r].pc = "done"]
    /\ cookie' = IF reqs[r].session.modified THEN reqs[r].session ELSE cookie
    /\ UNCHANGED notRace

NextRace ==
    \/ \E r \in Requests : Receive(r)
    \/ \E r \in Requests, role \in Roles, content \in RaceContents : Handle(r, role, content)
    \/ \E r \in Requests : Respond(r)

SpecRace == InitRace /\ [][NextRace]_vars

\* ------------------------------------------------------- the chat route
\* POSTs to the chat route followed from the first one
MaxTurns == 6

\* validate_message_input: the longest message accepted
MESSAGE_MAX == 4000

\* build_chat_messages: the history messages handed to the model
HISTORY_WINDOW == 10

(* A posted message may carry white space, runs of class "w"; str.strip()  *)
(* removes the white space at both ends.                                   *)
RECURSIVE LStrip(_)
LStrip(s) ==
    IF s = <<>> THEN <<>>
    ELSE IF Head(s).c = "w" THEN LStrip(Tail(s)) ELSE s

RECURSIVE RStrip(_)
RStrip(s) ==
    IF s = <<>> THEN <<>>
    ELSE IF s[Len(s)].c = "w" THEN RStrip(SubSeq(s, 1, Len(s) - 1)) ELSE s

Strip(s) == RStrip(LStrip(s))

validate_message_input(message) ==
    /\ message # <<>>
    /\ Strip(message) # <<>>
    /\ StrLen(Strip(message)) <= MESSAGE_MAX

\* what the configuration holds: endpoint, API key and model name, each
\* empty or set
Configured == [endpoint |-> "set", api_key |-> "set", model |-> "set"]
NoModel == [endpoint |-> "set", api_key |-> "set", model |-> ""]
Unconfigured == [endpoint |-> "", api_key |-> "", model |-> "set"]

Configs == {Configured, NoModel, Unconfigured}

is_configured(config) == config.endpoint # "" /\ config.api_key # ""

\* the settings chat() finds missing
MissingConfigs(config) ==
    {k \in {"endpoint", "api_key", "model"} : config[k] = ""}

\* the fixed texts of the route: the system message, the message chat()
\* appends when the model name is missing, and the messages
\* format_error_response returns for an authentication error and for any
\* other error
SystemText == <<Run("p", 2165, 20)>>
ConfigRequiredText == <<Run("u", 4, 23), Run("p", 500, 23)>>
AuthenticationText == <<Run("u", 9, 21), Run("p", 403, 21)>>
UnexpectedText == <<Run("u", 5, 22), Run("p", 395, 22)>>

Errors == {"authentication", "other"}

format_error_response(error) ==
    IF error = "authentication" THEN AuthenticationText ELSE UnexpectedText

\* the session chat() leaves when the handler raised
ChatExceptSession_silent(s, error) == s

ChatExceptSession(s, error) ==
    AppendSession(s, "assistant", format_error_response(error), "request")

\* conversation_history[-10:]
LastMessages(h, n) ==
    IF Len(h) <= n THEN h ELSE SubSeq(h, Len(h) - n + 1, Len(h))

build_chat_messages_oldest(history, message) ==
    <<Msg("system", SystemText)>>
        \o (IF Len(history) <= HISTORY_WINDOW THEN history
            ELSE SubSeq(history, 1, HISTORY_WINDOW))
        \o <<Msg("user", message)>>

build_chat_messages(history, message) ==
    <<Msg("system", SystemText)>>
        \o LastMessages(history, HISTORY_WINDOW)
        \o <<Msg("user", message)>>

\* the messages posted: nothing, white space, a short message between
\* white space, and in the first turns a long message, the longest message
\* accepted and one a character longer
Word(k) == <<Run("a", 2, 100 + k)>>
Padded(k) == <<Run("w", 1, 0)>> \o Word(k) \o <<Run("w", 2, 0)>>
Spaces == <<Run("w", 3, 0)>>
Longest == <<Run("a", 4000, 14)>>
TooLong == <<Run("w", 1, 0), Run("a", 4001, 15), Run("w", 1, 0)>>

ChatPosts(k) ==
    {<<>>, Spaces, Padded(k)}
    \cup (IF k <= 2 THEN {Para, Longest, TooLong} ELSE {})

\* what the model replies: a short reply, and in the first turns a long one
Reply(k) == <<Run("a", 2, 200 + k)>>
Report == <<Run("a", 2900, 12)>>

ChatReplies(k) ==
    {Reply(k)} \cup (IF k <= 2 THEN {Report} ELSE {})

InitChat ==
    /\ StoreIdle
    /\ LoopIdle
    /\ RaceIdle
    /\ ChatIdle
    /\ ClientIdle
    /\ ConfigIdle

\* a POST to the chat route arrives: the before_request hook runs on the
\* session, and redirects when the endpoint or the API key is missing
ChatReceive(p) ==
    /\ chat_pc = "idle"
    /\ context = "outside"
    /\ turn < MaxTurns
    /\ context' = "request"
    /\ session' = CheckConfigurationSession(session, "request")
    /\ last' = Obs("check_configuration", "request", "user", <<>>, session, "ok", <<>>)
    /\ found_history' = ReadValue(session, "request")
    /\ posted' = p
    /\ turn' = turn + 1
    /\ user_message' = <<>>
    /\ messages' = <<>>
    /\ IF is_configured(config_state)
       THEN chat_pc' = "route" /\ completed' = "none"
       ELSE chat_pc' = "done" /\ completed' = "redirected"
    /\ UNCHANGED <<config_state, log, clean>>
    /\ UNCHANGED notChat

\* chat(): a setting is missing, the route appends the message that asks
\* for it and returns
ChatMissingConfig ==
    /\ chat_pc = "route"
    /\ MissingConfigs(config_state) # {}
    /\ session' = AppendSession(session, "assistant", ConfigRequiredText, "request")
    /\ last' = Obs("append", "request", "assistant", ConfigRequiredText, session,
                   AppendOutcome(session, "request"), <<>>)
    /\ chat_pc' = "done"
    /\ completed' = "missing_config"
    /\ UNCHANGED <<context, log, clean>>
    /\ UNCHANGED <<config_state, posted, user_message, messages, turn, found_history>>
    /\ UNCHANGED notChat

\* chat(): the posted message is stripped and validated, and the route
\* returns when it is rejected
ChatValidate ==
    /\ chat_pc = "route"
    /\ MissingConfigs(config_state) = {}
    /\ user_message' = Strip(posted)
    /\ IF validate_message_input(Strip(posted))
       THEN chat_pc' = "accepted" /\ completed' = "none"
       ELSE chat_pc' = "done" /\ completed' = "invalid"
    /\ UNCHANGED storeVars
    /\ UNCHANGED <<config_state, posted, messages, turn, found_history>>
    /\ UNCHANGED notChat

\* chat(): the user message is appended to the conversation
ChatAppendUser ==
    /\ chat_pc = "accepted"
    /\ session' = AppendSession(session, "user", user_message, "request")
    /\ last' = Obs("append", "request", "user", user_message, session,
                   AppendOutcome(session, "request"), <<>>)
    /\ chat_pc' = "handler"
    /\ UNCHANGED <<context, log, clean>>
    /\ UNCHANGED <<config_state, posted, user_message, messages, turn, completed, found_history>>
    /\ UNCHANGED notChat

\* handle_chat_message: get_azure_client raises, and chat() appends the
\* error message
ChatClientFails(error) ==
    /\ chat_pc = "handler"
    /\ session' = ChatExceptSession(session, error)
    /\ last' = Obs("append", "request", "assistant", format_error_response(error),
                   session, AppendOutcome(session, "request"), <<>>)
    /\ chat_pc' = "done"
    /\ completed' = "exception"
    /\ UNCHANGED <<context, log, clean>>
    /\ UNCHANGED <<config_state, posted, user_message, messages, turn, found_history>>
    /\ UNCHANGED notChat

\* handle_chat_message: build_chat_messages reads the history and builds
\* the list for the model
ChatBuild ==
    /\ chat_pc = "handler"
    /\ messages' = build_chat_messages(ReadValue(session, "request"), user_message)
    /\ session' = ReadSession(session, "request")
    /\ last' = Obs("read", "request", "user", <<>>, session,
                   ReadOutcome(session, "request"), ReadValue(session, "request"))
    /\ chat_pc' = "calling"
    /\ UNCHANGED <<context, log, clean>>
    /\ UNCHANGED <<config_state, posted, user_message, turn, completed, found_history>>
    /\ UNCHANGED notChat

\* the model replies and chat() appends the reply
ChatModelReplies(response) ==
    /\ chat_pc = "calling"
    /\ session' = AppendSession(session, "assistant", response, "request")
    /\ last' = Obs("append", "request", "assistant", response, session,
                   AppendOutcome(session, "request"), <<>>)
    /\ chat_pc' = "done"
    /\ completed' = "success"
    /\ UNCHANGED <<context, log, clean>>
    /\ UNCHANGED <<config_state, posted, user_message, messages, turn, found_history>>
    /\ UNCHANGED notChat

\* the call of the model raises and chat() appends the error message
ChatModelRaises(error) ==
    /\ chat_pc = "calling"
    /\ session' = ChatExceptSession(session, error)
    /\ last' = Obs("append", "request", "assistant", format_error_response(error),
                   session, AppendOutcome(session, "request"), <<>>)
    /\ chat_pc' = "done"
    /\ completed' = "exception"
    /\ UNCHANGED <<context, log, clean>>
    /\ UNCHANGED <<config_state, posted, user_message, messages, turn, found_history>>
    /\ UNCHANGED notChat

\* the redirect is sent with the session cookie, and the request is over
ChatRespond ==
    /\ chat_pc = "done"
    /\ chat_pc' = "idle"
    /\ context' = "outside"
    /\ posted' = <<>>
    /\ user_message' = <<>>
    /\ messages' = <<>>
    /\ completed' = "none"
    /\ found_history' = <<>>
    /\ UNCHANGED <<session, last, log, clean>>
    /\ UNCHANGED <<config_state, turn>>
    /\ UNCHANGED notChat

\* between two POSTs the settings are saved with another configuration
ChatConfigure(config) ==
    /\ chat_pc = "idle"
    /\ config # config_state
    /\ config_state' = config
    /\ UNCHANGED storeVars
    /\ UNCHANGED <<chat_pc, posted, user_message, messages, turn, completed, found_history>>
    /\ UNCHANGED notChat

NextChat ==
    \/ \E p \in ChatPosts(turn + 1) : ChatReceive(p)
    \/ ChatMissingConfig
    \/ ChatValidate
    \/ ChatAppendUser
    \/ \E error \in Errors : ChatClientFails(error)
    \/ ChatBuild
    \/ \E response \in ChatReplies(turn) : ChatModelReplies(response)
    \/ \E error \in Errors : ChatModelRaises(error)
    \/ ChatRespond
    \/ \E config \in Configs : ChatConfigure(config)

SpecChat == InitChat /\ [][NextChat]_vars

\* --------------------------------------------------- the client cache
\* clients constructed in one behaviour
MaxClients == 3

\* the values the settings can hold
Endpoints == {"", "http://a", "https://a", "https://a/models", "https://b"}
ApiKeys == {"", "k1", "k2"}
ApiVersions == {"v1", "v2"}

\* endpoint.startswith('https://')
StartsWithHttps(e) == e \in {"https://a", "https://a/models", "https://b"}

\* endpoint.replace('/models', '').rstrip('/')
BaseEndpoint(e) == IF e = "https://a/models" THEN "https://a" ELSE e

\* get_client raises before it looks at the cache
ClientPreconditionFails(e, k, mi) ==
    \/ ~is_configured([endpoint |-> e, api_key |-> k])
    \/ e = ""
    \/ ~StartsWithHttps(e)
    \/ ~mi /\ k = ""

\* the test that decides whether a client is constructed
NeedsClient_ignoresKey(client, last_e, last_k, last_mi, e, k, mi) ==
    \/ client = 0
    \/ e # last_e
    \/ mi # last_mi

NeedsClient(client, last_e, last_k, last_mi, e, k, mi) ==
    \/ client = 0
    \/ e # last_e
    \/ k # last_k
    \/ mi # last_mi

\* the construction raises: with managed identity the token request
\* fails
ConstructionFails(mi, ok) == mi /\ ~ok

InitClient ==
    /\ StoreIdle
    /\ LoopIdle
    /\ RaceIdle
    /\ ChatIdle
    /\ ConfigIdle
    /\ endpoint \in Endpoints
    /\ api_key \in ApiKeys
    /\ api_version \in ApiVersions
    /\ use_managed_identity \in BOOLEAN
    /\ credential_ok \in BOOLEAN
    /\ _client = 0
    /\ _last_endpoint = "None"
    /\ _last_api_key = "None"
    /\ _last_auth_mode = "None"
    /\ built = NotBuilt
    /\ clients_created = 0
    /\ called = NotCalled

\* the settings are saved with other values
update_config(e, k, v) ==
    /\ <<e, k, v>> # <<endpoint, api_key, api_version>>
    /\ endpoint' = e
    /\ api_key' = k
    /\ api_version' = v
    /\ UNCHANGED <<use_managed_identity, credential_ok, _client, _last_endpoint,
                   _last_api_key, _last_auth_mode, built, clients_created, called>>
    /\ UNCHANGED notClient

\* the identity service starts or stops answering token requests
CredentialChanges ==
    /\ use_managed_identity
    /\ credential_ok' = ~credential_ok
    /\ UNCHANGED <<endpoint, api_key, api_version, use_managed_identity, _client,
                   _last_endpoint, _last_api_key, _last_auth_mode, built,
                   clients_created, called>>
    /\ UNCHANGED notClient

\* one call of get_client
get_client ==
    /\ clients_created < MaxClients
    /\ LET needed == NeedsClient(_client, _last_endpoint, _last_api_key, _last_auth_mode,
                                 endpoint, api_key, use_managed_identity)
           found == [endpoint |-> endpoint, api_key |-> api_key,
                     auth_mode |-> use_managed_identity, client |-> _client,
                     last_endpoint |-> _last_endpoint,
                     last_api_key |-> _last_api_key,
                     last_auth_mode |-> _last_auth_mode]
       IN  IF \/ ClientPreconditionFails(endpoint, api_key, use_managed_identity)
              \/ needed /\ ConstructionFails(use_managed_identity, credential_ok)
           THEN /\ called' = found @@
                             [outcome |-> "raised", created |-> FALSE, returned |-> 0]
                /\ UNCHANGED <<_client, _last_endpoint, _last_api_key, _last_auth_mode,
                               built, clients_created>>
           ELSE IF needed
           THEN /\ _client' = clients_created + 1
                /\ clients_created' = clients_created + 1
                /\ built' = [endpoint |-> endpoint, api_key |-> api_key,
                             auth_mode |-> use_managed_identity,
                             azure_endpoint |-> BaseEndpoint(endpoint),
                             api_version |-> api_version]
                /\ _last_endpoint' = endpoint
                /\ _last_api_key' = api_key
                /\ _last_auth_mode' = use_managed_identity
                /\ called' = found @@
                             [outcome |-> "returned", created |-> TRUE,
                              returned |-> clients_created + 1]
           ELSE /\ called' = found @@
                             [outcome |-> "returned", created |-> FALSE,
                              returned |-> _client]
                /\ UNCHANGED <<_client, _last_endpoint, _last_api_key, _last_auth_mode,
                               built, clients_created>>
    /\ UNCHANGED <<endpoint, api_key, api_version, use_managed_identity, credential_ok>>
    /\ UNCHANGED notClient

NextClient ==
    \/ \E e \in Endpoints, k \in ApiKeys, v \in ApiVersions : update_config(e, k, v)
    \/ CredentialChanges
    \/ get_client

SpecClient == InitClient /\ [][NextClient]_vars

\* ------------------------------------------------ saving the settings
\* the values the settings page can set
EndpointValues == {"", "e1", "e2"}
KeyValues == {"", "k1"}
ModelValues == {"m1", "m2"}

\* json.dump of the whole configuration, and of the configuration without
\* its sensitive keys
LocalFileContent(config) ==
    [exists |-> TRUE, endpoint |-> config.endpoint, api_key |-> config.api_key,
     model |-> config.model]

ProductionFileContent_all(config) == LocalFileContent(config)

ProductionFileContent(config) ==
    [exists |-> TRUE, endpoint |-> "-", api_key |-> "-", model |-> config.model]

\* the secrets after _save_production_config has set those the
\* configuration holds
VaultAfterSave(vault, config) ==
    [endpoint |-> IF config.endpoint # "" THEN config.endpoint ELSE vault.endpoint,
     api_key |-> IF config.api_key # "" THEN config.api_key ELSE vault.api_key]

\* _load_local_config and _load_production_config, no credential being set
\* in the environment
LoadedConfig(production, file, vault, client) ==
    LET from_file == IF file.exists /\ file.model # "-"
                     THEN [DefaultConfig EXCEPT !.model = file.model]
                     ELSE DefaultConfig
    IN  IF production
        THEN IF client
             THEN [from_file EXCEPT
                     !.endpoint = IF vault.endpoint # "-" THEN vault.endpoint ELSE "",
                     !.api_key = IF vault.api_key # "-" THEN vault.api_key ELSE ""]
             ELSE from_file
        ELSE [from_file EXCEPT
                !.endpoint = IF file.endpoint # "-" THEN file.endpoint ELSE "",
                !.api_key = IF file.api_key # "-" THEN file.api_key ELSE ""]

\* reset_to_defaults: the defaults, with the credentials held when both
\* are set
ResetConfig(config) ==
    IF config.endpoint # "" /\ config.api_key # ""
    THEN [DefaultConfig EXCEPT !.endpoint = config.endpoint, !.api_key = config.api_key]
    ELSE DefaultConfig

InitConfig ==
    /\ StoreIdle
    /\ LoopIdle
    /\ RaceIdle
    /\ ChatIdle
    /\ ClientIdle
    /\ ConfigIdle

\* _save_production_config and _save_local_config on the configuration
\* config: the file, the secrets and the result they leave; secrets_ok is
\* whether the key vault accepts the secrets
_save_production_config(config, file, vault, client, writable, secrets_ok) ==
    [file |-> IF writable THEN ProductionFileContent(config) ELSE file,
     vault |-> IF client /\ secrets_ok THEN VaultAfterSave(vault, config) ELSE vault,
     secrets_set |-> client /\ secrets_ok,
     result |-> client /\ secrets_ok /\ writable]

_save_local_config(config, file, vault, writable) ==
    [file |-> IF writable THEN LocalFileContent(config) ELSE file,
     vault |-> vault,
     secrets_set |-> FALSE,
     result |-> writable]

SaveOutcome(production, config, file, vault, client, writable, secrets_ok) ==
    IF production
    THEN _save_production_config(config, file, vault, client, writable, secrets_ok)
    ELSE _save_local_config(config, file, vault, writable)

\* what a save records of what it found and did
SaveRecord(op, config, outcome) ==
    [op |-> op, production |-> is_production, result |-> outcome.result,
     vault_client |-> vault_client, secrets_set |-> outcome.secrets_set,
     file_written |-> file_writable, config |-> config,
     file |-> settings_file, vault |-> key_vault]

save_config(secrets_ok) ==
    /\ LET outcome == SaveOutcome(is_production, manager_config, settings_file, key_vault,
                                  vault_client, file_writable, secrets_ok)
       IN  /\ settings_file' = outcome.file
           /\ key_vault' = outcome.vault
           /\ saved' = SaveRecord("save_config", manager_config, outcome)
    /\ UNCHANGED <<manager_config, is_production, vault_client, file_writable>>
    /\ UNCHANGED notConfig

update_model_config(e, k, m, secrets_ok) ==
    /\ LET config == [endpoint |-> e, api_key |-> k, model |-> m]
           outcome == SaveOutcome(is_production, config, settings_file, key_vault,
                                  vault_client, file_writable, secrets_ok)
       IN  /\ manager_config' = config
           /\ settings_file' = outcome.file
           /\ key_vault' = outcome.vault
           /\ saved' = SaveRecord("update_config", config, outcome)
    /\ UNCHANGED <<is_production, vault_client, file_writable>>
    /\ UNCHANGED notConfig

reset_to_defaults(secrets_ok) ==
    /\ LET config == ResetConfig(manager_config)
           outcome == SaveOutcome(is_production, config, settings_file, key_vault,
                                  vault_client, file_writable, secrets_ok)
       IN  /\ manager_config' = config
           /\ settings_file' = outcome.file
           /\ key_vault' = outcome.vault
           /\ saved' = SaveRecord("reset_to_defaults", config, outcome)
    /\ UNCHANGED <<is_production, vault_client, file_writable>>
    /\ UNCHANGED notConfig

\* the application is started, locally or deployed with its settings file:
\* ConfigManager() detects the mode, creates the key vault client in
\* production and loads the configuration
StartProcess(production, client, writable) ==
    /\ is_production' = production
    /\ vault_client' = (production /\ client)
    /\ file_writable' = writable
    /\ manager_config' = LoadedConfig(production, settings_file, key_vault,
                                      production /\ client)
    /\ UNCHANGED <<settings_file, key_vault, saved>>
    /\ UNCHANGED notConfig

NextConfig ==
    \/ \E production, client, writable \in BOOLEAN :
          StartProcess(production, client, writable)
    \/ \E secrets_ok \in BOOLEAN : save_config(secrets_ok)
    \/ \E e \in EndpointValues, k \in KeyValues, m \in ModelValues, secrets_ok \in BOOLEAN :
          update_model_config(e, k, m, secrets_ok)
    \/ \E secrets_ok \in BOOLEAN : reset_to_defaults(secrets_ok)

SpecConfig == InitConfig /\ [][NextConfig]_vars

\* ------------------------------------------------------------- properties
\* the history a read finds in the session the last operation found / left
Before == ReadValue(last.prior, "request")
After == ReadValue(session, "request")

\* the last operation was an append in a working session that returned
AppendedOk ==
    last.op = "append" /\ last.ctx = "request" /\ last.outcome = "ok"

\* the message the last append built from its arguments
NewMessage == Msg(last.role, _process_multimodal_content_light(last.content))

\* s is t without its k oldest elements, for some k
IsSuffix(s, t) == \E k \in 0..Len(t) : s = SubSeq(t, k + 1, Len(t))

\* len of the compressed (existing history + new message) of the last append
ProbeSize == _compress_conversation(Before \o <<NewMessage>>).n

\* C1: after every append that returns normally the string persisted under
\* 'conversation_compressed' is at most SESSION_LIMIT characters long.
C1_SizeInvariant ==
    AppendedOk => session.has_cc /\ session.cc.n <= SESSION_LIMIT

\* C2: after an append, the stored history without its last message (the
\* new one) is the history stored before without its k oldest messages,
\* for some k: what is removed is exactly the k oldest messages.
C2_OldestFirst ==
    AppendedOk =>
        /\ After # <<>>
        /\ IsSuffix(SubSeq(After, 1, Len(After) - 1), Before)

\* an append evicted one of two different old messages and kept the other
C2_Witness ==
    /\ AppendedOk
    /\ Len(Before) = 2 /\ Before[1] # Before[2]
    /\ Len(After) = 2 /\ After[1] = Before[2]

\* C3: after every append that returns normally the stored history is not
\* empty and its last message has the role passed and the pre-processed
\* content, or the last-resort truncation of the pre-processed content.
C3_NewMessageKept ==
    AppendedOk =>
        /\ After # <<>>
        /\ After[Len(After)].role = last.role
        /\ \/ After[Len(After)].content = NewMessage.content
           \/ After[Len(After)].content =
                 Slice(NewMessage.content,
                       SESSION_LIMIT - MESSAGE_OVERHEAD - CONTENT_BUFFER - MARKER_ROOM)
                    \o <<HardMark>>

\* an append evicted every old message and truncated the new one
C3_Witness ==
    /\ AppendedOk
    /\ Before # <<>>
    /\ Len(After) = 1
    /\ After[1].content # NewMessage.content
    /\ After[1].role = last.role

\* the pre-processing of every logged message, in order
Processed(l) ==
    [i \in 1..Len(l) |->
        Msg(l[i].role, _process_multimodal_content_light(l[i].content))]

\* C4 as stated: from an empty session, after appends none of which evicted
\* or truncated, a read returns the messages with the roles and the contents
\* given, in the order appended.
C4_OrderPreserved_AsStated ==
    clean => After = log

\* C4 amended: ... a read returns the messages in the order appended, with
\* the roles given and the contents given in which each inline-image marker
\* is replaced by the placeholder.
C4_OrderPreserved ==
    clean => After = Processed(log)

\* three different messages were appended to an empty session and all kept
C4_Witness ==
    /\ clean
    /\ AppendedOk
    /\ Len(log) = 3
    /\ log[1] # log[2] /\ log[2] # log[3] /\ log[1] # log[3]

\* C5: when the content passed to append holds an inline-image marker
\* followed by a large payload, the content stored holds none of the
\* payload's characters but the placeholder, and is shorter than 1KB.
C5_PayloadStripped ==
    AppendedOk /\ HasMarker(last.content) /\ StrLen(last.content) >= 1000000 =>
        /\ ~HasPayloadChars(After[Len(After)].content)
        /\ HasPlaceholder(After[Len(After)].content)
        /\ StrLen(After[Len(After)].content) < 1024

\* C6: when 'conversation_compressed' holds an invalid payload (not base64,
\* not zlib data, not JSON, or JSON that is not a list), a read returns the
\* empty sequence, raises nothing and leaves both session keys as they were.
C6_CorruptionTolerated ==
    /\ last.op = "read" /\ last.ctx = "request"
    /\ last.prior.has_cc /\ last.prior.cc.n > 0 /\ last.prior.cc.ok < 4
    =>
        /\ last.outcome = "ok"
        /\ last.value = <<>>
        /\ ~session.modified
        /\ session.has_cc = last.prior.has_cc /\ session.cc = last.prior.cc
        /\ session.has_legacy = last.prior.has_legacy
        /\ session.legacy = last.prior.legacy

\* a read found garbage that is not zlib data next to a legacy list
C6_Witness ==
    /\ last.op = "read" /\ last.ctx = "request"
    /\ last.prior.has_cc /\ last.prior.cc.n > 0 /\ last.prior.cc.ok = 1
    /\ last.prior.has_legacy /\ last.prior.legacy # <<>>
    /\ last.value = <<>>

\* C7: when only the legacy key holds a non-empty message list, a read
\* returns that list, and afterwards the legacy key is absent and the
\* compressed key holds a payload that decodes to the same list.
C7_MigrationOnRead ==
    /\ last.op = "read" /\ last.ctx = "request"
    /\ ~last.prior.has_cc /\ last.prior.has_legacy /\ last.prior.legacy # <<>>
    =>
        /\ last.value = last.prior.legacy
        /\ ~session.has_legacy
        /\ session.has_cc
        /\ _decompress_conversation(session.cc) = Returned(last.prior.legacy)

\* a read migrated a legacy list of two messages
C7_Witness ==
    /\ last.op = "read" /\ last.ctx = "request"
    /\ ~last.prior.has_cc /\ Len(last.prior.legacy) = 2
    /\ session.has_cc /\ ~session.has_legacy

\* C8: after every append that returns normally, whatever the session held
\* (legacy only, compressed only, both, neither), the legacy key is absent
\* and the compressed key holds a valid encoding of a history that ends
\* with the new message; nothing of a payload it replaced is left.
C8_OnlyCompressedAfterAppend ==
    AppendedOk =>
        /\ ~session.has_legacy /\ session.legacy = <<>>
        /\ session.has_cc /\ session.cc.ok = 4 /\ session.cc.n > 0
        /\ session.cc.conv # <<>>
        /\ session.cc.conv[Len(session.cc.conv)].role = last.role
        /\ IsSuffix(SubSeq(session.cc.conv, 1, Len(session.cc.conv) - 1), Before)

\* an append found both keys present
C8_Witness ==
    /\ AppendedOk
    /\ last.prior.has_cc /\ last.prior.has_legacy /\ last.prior.legacy # <<>>
    /\ ~session.has_legacy

\* C9: clear removes both keys whatever the session holds, a read after it
\* returns the empty sequence, and a clear of the cleared session raises
\* nothing and leaves the state the first clear left.
C9_ClearIdempotent ==
    last.op = "clear" /\ last.ctx = "request" =>
        /\ last.outcome = "ok"
        /\ ~session.has_cc /\ ~session.has_legacy
        /\ ReadValue(session, "request") = <<>>
        /\ ReadSession(session, "request").has_cc = FALSE
        /\ ClearSession(session, "request") = session

\* a clear found both keys present
C9_Witness ==
    /\ last.op = "clear" /\ last.ctx = "request"
    /\ last.prior.has_cc /\ last.prior.has_legacy
    /\ ~session.has_cc /\ ~session.has_legacy

\* C10 as stated: whenever the compressed size of (existing history + new
\* message) is at most the ceiling, append persists the existing history
\* followed by the new message, nothing evicted, nothing truncated.
C10_AcceptedUnderCeiling_AsStated ==
    AppendedOk /\ ProbeSize <= SESSION_LIMIT =>
        After = Before \o <<NewMessage>>

\* C10 amended: whenever the current session size plus that compressed size
\* is at most the ceiling, or the existing history is not empty and that
\* compressed size plus the overhead reserve is at most the ceiling, append
\* persists the existing history followed by the new message.
C10_AcceptedUnderCeiling ==
    /\ AppendedOk
    /\ \/ SessionStrLen(ReadSession(last.prior, "request")) + ProbeSize
             <= SESSION_LIMIT
       \/ Before # <<>> /\ ProbeSize + MESSAGE_OVERHEAD <= SESSION_LIMIT
    =>
        After = Before \o <<NewMessage>>

\* an append failed the first size check and was accepted whole by the loop
C10_Witness ==
    /\ AppendedOk
    /\ Before # <<>>
    /\ SessionStrLen(ReadSession(last.prior, "request")) + ProbeSize > SESSION_LIMIT
    /\ ProbeSize + MESSAGE_OVERHEAD <= SESSION_LIMIT
    /\ After = Before \o <<NewMessage>>

\* C11: the budget step changes the content of the new message only when the
\* new message alone, compressed, plus the overhead reserve exceeds the
\* ceiling; a new message that fits alone is stored with its pre-processed
\* content, even when every older message was evicted.
C11_TruncationLastResort ==
    AppendedOk /\ After # <<>> /\ After[Len(After)].content # NewMessage.content
    =>
        _compress_conversation(<<NewMessage>>).n + MESSAGE_OVERHEAD > SESSION_LIMIT

\* the content with every inline-image marker replaced by the placeholder
Stripped(content) == IF HasMarker(content) THEN ReplaceMarker(content) ELSE content

\* the content stored for the new message, ending with a truncation marker
EndsWithMark(content) ==
    content # <<>> /\ content[Len(content)] \in {LightMark, HardMark}

\* C12 as stated: for any appended content longer than LIGHT_LIMIT
\* characters the stored content is shorter than LIGHT_LIMIT and ends with a
\* truncation marker.
C12_AbsoluteCeiling_AsStated ==
    AppendedOk /\ StrLen(last.content) > LIGHT_LIMIT =>
        /\ After # <<>>
        /\ StrLen(After[Len(After)].content) < LIGHT_LIMIT
        /\ EndsWithMark(After[Len(After)].content)

\* C12 amended: for any appended content that is still longer than
\* LIGHT_LIMIT characters once its inline-image markers are replaced by the
\* placeholder, the stored content is shorter than LIGHT_LIMIT and ends with
\* a truncation marker, whichever truncation the append applies.
C12_AbsoluteCeiling ==
    AppendedOk /\ StrLen(Stripped(last.content)) > LIGHT_LIMIT =>
        /\ After # <<>>
        /\ StrLen(After[Len(After)].content) < LIGHT_LIMIT
        /\ EndsWithMark(After[Len(After)].content)

\* an append of a content over LIGHT_LIMIT characters stored it cut by the
\* pre-processing alone
C12_Witness ==
    /\ AppendedOk
    /\ StrLen(Stripped(last.content)) > LIGHT_LIMIT
    /\ After # <<>>
    /\ StrLen(After[Len(After)].content) = LIGHT_KEEP + LIGHT_MARK_LEN
    /\ After[Len(After)].content[Len(After[Len(After)].content)] = LightMark

\* C13: when every access to the session raises during an append, the
\* append raises if and only if a request context is active, and in both
\* cases the session is left as it was found.
C13_WriteFailurePolicy ==
    last.op = "append" /\ SessionRaises(last.ctx) =>
        /\ last.outcome = "raised" <=> has_request_context(last.ctx)
        /\ session = last.prior

\* an append outside a request context returned normally and left a stored
\* conversation untouched
C13_Witness ==
    /\ last.op = "append" /\ last.ctx = "outside"
    /\ last.outcome = "ok"
    /\ last.prior.has_cc /\ After # <<>>
    /\ session = last.prior

\* C14: when every access to the session raises during a read, the read
\* returns normally and returns the empty sequence, inside a request
\* context or outside.
C14_ReadNeverRaises ==
    last.op = "read" /\ SessionRaises(last.ctx) =>
        last.outcome = "ok" /\ last.value = <<>>

\* a read inside a request whose session raises returned the empty
\* sequence although a conversation is stored
C14_Witness ==
    /\ last.op = "read" /\ last.ctx = "broken"
    /\ last.outcome = "ok" /\ last.value = <<>>
    /\ After # <<>>
    /\ session = last.prior

\* what the session holds under the two conversation keys
ConversationKeys(s) == <<s.has_cc, s.cc, s.has_legacy, s.legacy>>

\* the last step was made by the code of the application and left the
\* conversation keys different from what it found
KeysChangedByCode ==
    last.op # "corrupt" /\ ConversationKeys(session) # ConversationKeys(last.prior)

\* the last step found a conversation key and left none
KeysEmptied ==
    /\ last.prior.has_cc \/ last.prior.has_legacy
    /\ ~session.has_cc /\ ~session.has_legacy

\* C15 as stated: the conversation keys are changed only by append and by
\* the migration of a read, and emptied only by clear; no other code of the
\* application removes or alters them.
C15_ExclusiveOwnership_AsStated ==
    KeysChangedByCode =>
        /\ last.op \in {"append", "read", "clear"}
        /\ KeysEmptied => last.op = "clear"

\* C15 amended: the conversation keys are changed only by append and by
\* the migration of a read, and emptied only by clear or by the
\* before_request hook check_configuration, which removes both keys when
\* str(session) is longer than CLEANUP_LIMIT characters; no other code of
\* the application removes or alters them.
C15_ExclusiveOwnership ==
    KeysChangedByCode =>
        /\ last.op \in {"append", "read", "clear", "check_configuration"}
        /\ KeysEmptied => last.op \in {"clear", "check_configuration"}
        /\ last.op = "check_configuration" =>
              /\ KeysEmptied
              /\ SessionStrChars(last.prior) > CLEANUP_LIMIT
        /\ last.op = "read" =>
              /\ ~(last.prior.has_cc /\ last.prior.cc.n > 0)
              /\ After = last.prior.legacy

\* a request began with the hook removing a stored conversation whose
\* payload was within the ceiling of the store
C15_Witness ==
    /\ last.op = "check_configuration"
    /\ last.prior.has_cc /\ ~last.prior.has_legacy
    /\ Before # <<>>
    /\ last.prior.cc.n <= SESSION_LIMIT
    /\ SessionStrChars(last.prior) > CLEANUP_LIMIT
    /\ KeysEmptied

\* the compressed key of s holds a value
HoldsCompressed(s) == s.has_cc /\ s.cc.n > 0

\* C16: a read in a working session returns what the compressed payload
\* decodes to whenever the compressed key holds a value, whatever the legacy
\* key holds; it returns the legacy list only when the compressed key holds
\* no value, and the empty sequence when neither key is present.
C16_ReadResolutionOrder ==
    last.op = "read" /\ last.ctx = "request" =>
        /\ last.outcome = "ok"
        /\ HoldsCompressed(last.prior) =>
              last.value = (IF last.prior.cc.ok = 4 THEN last.prior.cc.conv ELSE <<>>)
        /\ ~HoldsCompressed(last.prior) /\ last.prior.has_legacy =>
              last.value = last.prior.legacy
        /\ ~HoldsCompressed(last.prior) /\ ~last.prior.has_legacy =>
              last.value = <<>>

\* a read found a payload and a legacy list of other messages, and
\* returned the messages of the payload
C16_Witness ==
    /\ last.op = "read" /\ last.ctx = "request"
    /\ HoldsCompressed(last.prior) /\ last.prior.cc.ok = 4
    /\ last.prior.has_legacy /\ last.prior.legacy # <<>>
    /\ last.value # <<>>
    /\ last.value # last.prior.legacy
    /\ \A i \in 1..Len(last.value) :
          \A j \in 1..Len(last.prior.legacy) : last.value[i] # last.prior.legacy[j]

\* C17: after a read that migrates a legacy list into the compressed key,
\* the string stored under 'conversation_compressed' is at most
\* SESSION_LIMIT characters long.
C17_MigrationUnderCeiling ==
    /\ last.op = "read" /\ last.ctx = "request"
    /\ ~HoldsCompressed(last.prior)
    /\ last.prior.has_legacy /\ last.prior.legacy # <<>>
    =>
        session.has_cc /\ session.cc.n <= SESSION_LIMIT

\* t is s cut to its first k characters, for some k, followed by the
\* truncation marker of the last resort
IsTruncationOf(t, s) ==
    \E k \in {SESSION_LIMIT - MESSAGE_OVERHEAD - CONTENT_BUFFER - MARKER_ROOM} :
        t = Slice(s, k) \o <<HardMark>>

\* C18: in a working session an append returns normally whatever the length
\* of the content, and the payload it leaves decodes to a history whose
\* last message is the new one, whole or truncated.
C18_OversizedNotAnError ==
    last.op = "append" /\ last.ctx = "request" =>
        /\ last.outcome = "ok"
        /\ session.has_cc /\ session.cc.ok = 4
        /\ session.cc.conv # <<>>
        /\ LET stored == session.cc.conv[Len(session.cc.conv)]
           IN  /\ stored.role = last.role
               /\ \/ stored.content = NewMessage.content
                  \/ IsTruncationOf(stored.content, NewMessage.content)

\* an append of a content of more than a million characters returned
\* normally and left a history holding that message
C18_Witness ==
    /\ last.op = "append" /\ last.ctx = "request"
    /\ StrLen(last.content) > 1000000
    /\ last.outcome = "ok"
    /\ session.has_cc /\ Len(session.cc.conv) = 1
    /\ session.cc.conv[1].role = last.role
    /\ HasPlaceholder(session.cc.conv[1].content)

\* the fit test of the loop on the history found without its j oldest
\* messages, followed by the new message
FitsLoop(j) ==
    _compress_conversation(SubSeq(Before, j + 1, Len(Before)) \o <<NewMessage>>).n
        + MESSAGE_OVERHEAD <= SESSION_LIMIT

\* the number of old messages the last append evicted
Evicted == Len(Before) + 1 - Len(After)

\* C19: when an append evicts k > 0 old messages, the history found without
\* only j of its oldest messages, for every j < k, followed by the new
\* message failed the fit test of the loop: no more messages are removed
\* than the test requires.
C19_MinimalEviction ==
    AppendedOk /\ After # <<>> /\ Evicted > 0 =>
        \A j \in 0..(Evicted - 1) : ~FitsLoop(j)

\* an append found two messages, failed the fit test with both and passed
\* it with the newer one, which it kept
C19_Witness ==
    /\ AppendedOk
    /\ Len(Before) = 2 /\ Evicted = 1
    /\ ~FitsLoop(0) /\ FitsLoop(1)
    /\ After = <<Before[2], NewMessage>>

\* t is the first StrLen(t) characters of s
IsPrefix(t, s) == StrLen(t) <= StrLen(s) /\ t = Slice(s, StrLen(t))

\* C20: whenever the budget step truncates the new message, the stored
\* history is that one message, its role is the role passed, its content
\* is a prefix of the pre-processed content followed by the marker of the
\* last resort, and the content is at most SESSION_LIMIT - MESSAGE_OVERHEAD
\* - CONTENT_BUFFER characters long.
C20_TruncationShape ==
    AppendedOk /\ After # <<>> /\ After[Len(After)].content # NewMessage.content
    =>
        /\ Len(After) = 1
        /\ After[1].role = last.role
        /\ LET stored == After[1].content
           IN  /\ Len(stored) > 1
               /\ stored[Len(stored)] = HardMark
               /\ IsPrefix(SubSeq(stored, 1, Len(stored) - 1), NewMessage.content)
               /\ StrLen(stored) <= SESSION_LIMIT - MESSAGE_OVERHEAD - CONTENT_BUFFER

\* an append to an empty history stored the new message cut by the last
\* resort
C20_Witness ==
    /\ AppendedOk
    /\ Before = <<>>
    /\ Len(After) = 1
    /\ StrLen(NewMessage.content) > SESSION_LIMIT - MESSAGE_OVERHEAD - CONTENT_BUFFER
    /\ After[1].content[Len(After[1].content)] = HardMark
    /\ StrLen(After[1].content) < StrLen(NewMessage.content)

\* the first size test of the budget step, on the pre-processed message
FitsFirst ==
    SessionStrLen(ReadSession(last.prior, "request")) + ProbeSize <= SESSION_LIMIT

\* C21: when pre-processing changes the content passed, the sizes the
\* budget step computes are those of the pre-processed content: a history
\* that passes the first size test or the fit test of the loop with the
\* pre-processed message is stored whole; and the content stored is the
\* pre-processed one or its last-resort truncation, never the content passed.
C21_ProcessedBeforeMeasured ==
    AppendedOk /\ After # <<>> /\ last.content # NewMessage.content =>
        /\ After[Len(After)].content # last.content
        /\ \/ After[Len(After)].content = NewMessage.content
           \/ IsTruncationOf(After[Len(After)].content, NewMessage.content)
        /\ (FitsFirst \/ (Before # <<>> /\ FitsLoop(0))) =>
              After = Before \o <<NewMessage>>

\* an append of a content that, as passed, fails both size tests with the
\* history found and, pre-processed, passes the fit test of the loop: the
\* history is stored whole with the pre-processed content
C21_Witness ==
    /\ AppendedOk
    /\ Before # <<>>
    /\ last.content # NewMessage.content
    /\ _compress_conversation(Before \o <<Msg(last.role, last.content)>>).n
          + MESSAGE_OVERHEAD > SESSION_LIMIT
    /\ FitsLoop(0)
    /\ After = Before \o <<NewMessage>>

\* the call followed statement by statement returns what the operator of
\* the budget step gives
LoopReturnsBudgetStep ==
    loop_pc = "returned" =>
        result = _apply_intelligent_truncation(
                     conversation, new_message, SessionStrLen(LoopSession(conversation)))

\* C22: for a history of n messages the loop makes at most n size probes;
\* each pass through its body either returns or removes exactly the oldest
\* message; and the call always returns.
C22_EvictionTerminates ==
    /\ [](probes <= Len(conversation))
    /\ [][loop_pc = "while" /\ Len(working_conversation) > 0 =>
            \/ loop_pc' = "returned" /\ working_conversation' = working_conversation
            \/ loop_pc' = "while" /\ working_conversation' = Tail(working_conversation)]_vars
    /\ <>(loop_pc = "returned")

\* a call with a history of three messages returned from the last resort
\* after three probes
C22_Witness ==
    /\ loop_pc = "returned"
    /\ Len(conversation) = 3
    /\ probes = 3
    /\ working_conversation = <<>>
    /\ Len(result) = 1

\* both requests are answered, and both carried the same cookie
BothDone == \A r \in Requests : reqs[r].pc = "done"
Overlapped == reqs[1].found = reqs[2].found

\* the two requests overlapped: the cookie finally held is the session one
\* of them wrote
RaceOneWriteWins ==
    BothDone /\ Overlapped =>
        \E r \in Requests : cookie = reqs[r].session

\* the history of the cookie finally held lacks the message the other
\* request appended, although the three messages together fit
RaceLosesMessage ==
    /\ BothDone /\ Overlapped
    /\ \E r, o \in Requests :
          /\ r # o
          /\ cookie = reqs[r].session
          /\ reqs[o].message # reqs[r].message
          /\ LET found == ReadValue(reqs[r].found, "request")
                 held == ReadValue(cookie, "request")
             IN  /\ Len(found) = 1
                 /\ held = found \o <<reqs[r].message>>
                 /\ ReadValue(reqs[o].session, "request") = found \o <<reqs[o].message>>

\* C23: when two requests carrying the same cookie overlap, the session
\* finally held is exactly the session one of the two wrote, and the payload
\* it holds is at most SESSION_LIMIT characters long.
C23_LastWriteWins ==
    BothDone /\ Overlapped =>
        /\ \E r \in Requests : cookie = reqs[r].session
        /\ cookie.has_cc /\ cookie.cc.n <= SESSION_LIMIT

\* C24: the session an append leaves passes the size check of the
\* before_request hook of the following request, so that a read in that
\* request returns the history the append stored.
C24_SurvivesNextRequest ==
    AppendedOk =>
        /\ SessionStrChars(session) <= CLEANUP_LIMIT
        /\ ReadValue(CheckConfigurationSession(session, "request"), "request") = After

\* C25: a read that finds a compressed payload, or neither key, changes no
\* conversation key; and after a read has returned a sequence, as long as no
\* append and no clear is made (and nothing corrupts the payload), a read
\* returns that same sequence.
C25_ReadStable ==
    /\ [](last.op = "read" /\ last.ctx = "request"
            /\ (HoldsCompressed(last.prior)
                   \/ (~last.prior.has_cc /\ ~last.prior.has_legacy))
          => ConversationKeys(session) = ConversationKeys(last.prior))
    /\ [][last.op = "read" /\ last.ctx = "request" /\ last.outcome = "ok"
            /\ last'.op \notin {"append", "clear", "corrupt"}
            /\ context' = "request"
          => ReadValue(session', "request") = last.value]_vars

\* the history a read finds in the session, and whether a history is empty
\* or ends with a message of the assistant
ChatHistory == ReadValue(session, "request")

EndsWithAssistant(h) == h = <<>> \/ h[Len(h)].role = "assistant"

\* m is the user message of the POST being handled, as the store keeps it:
\* whole, or cut by the last resort of the truncation
IsUserMessageOfTurn(m) ==
    /\ m.role = "user"
    /\ \/ m.content = _process_multimodal_content_light(user_message)
       \/ IsTruncationOf(m.content, _process_multimodal_content_light(user_message))

\* C26: with a working session and starting from an empty history, between
\* two POSTs to the chat route and when a POST completes (redirected by the
\* hook, missing configuration, invalid message, successful model call or
\* handler exception) the stored history is empty or ends with a message of
\* role 'assistant'; and when the reply of the model is appended, the
\* history it is appended to ends with the user message of the same request.
C26_ChatRequestBoundary ==
    /\ chat_pc \in {"idle", "route", "done"} => EndsWithAssistant(ChatHistory)
    /\ chat_pc \in {"handler", "calling"} =>
          /\ ChatHistory # <<>>
          /\ IsUserMessageOfTurn(ChatHistory[Len(ChatHistory)])
    /\ chat_pc = "done" /\ completed = "success" =>
          /\ last.op = "append" /\ last.role = "assistant"
          /\ Before # <<>>
          /\ IsUserMessageOfTurn(Before[Len(Before)])

\* a POST completed by a handler exception: the history holds the user
\* message of the request followed by the error message of the assistant
C26_Witness ==
    /\ chat_pc = "done" /\ completed = "exception"
    /\ Len(ChatHistory) >= 4
    /\ IsUserMessageOfTurn(ChatHistory[Len(ChatHistory) - 1])
    /\ ChatHistory[Len(ChatHistory)] = Msg("assistant", UnexpectedText)

\* C27: the list build_chat_messages hands to the model during the chat
\* route is one system message, then the last HISTORY_WINDOW stored
\* messages (all of them when fewer are stored) in stored order, then one
\* user entry with the current message; the last history entry of the list
\* is this turn's user message as stored, so that the list ends with two
\* user entries for the same turn.
C27_ModelContext ==
    chat_pc = "calling" =>
        LET h == ChatHistory
            n == Len(messages)
            k == IF Len(h) <= HISTORY_WINDOW THEN Len(h) ELSE HISTORY_WINDOW
        IN  /\ n = k + 2
            /\ k >= 1
            /\ messages[1] = Msg("system", SystemText)
            /\ \A i \in 1..k : messages[1 + i] = h[Len(h) - k + i]
            /\ messages[n] = Msg("user", user_message)
            /\ IsUserMessageOfTurn(messages[n - 1])

\* the list was built from a history of more than HISTORY_WINDOW messages:
\* it leaves the oldest out and ends with the user message twice
C27_Witness ==
    /\ chat_pc = "calling"
    /\ Len(ChatHistory) > HISTORY_WINDOW
    /\ Len(messages) = HISTORY_WINDOW + 2
    /\ messages[2] = ChatHistory[Len(ChatHistory) - HISTORY_WINDOW + 1]
    /\ messages[2] # ChatHistory[1]
    /\ messages[Len(messages)] = messages[Len(messages) - 1]

\* the route rejected the posted message: since the hook ran, the route
\* left the session as it was
ChatRejectAppendsNothing ==
    chat_pc = "done" /\ completed = "invalid" =>
        /\ last.op = "check_configuration"
        /\ session = CheckConfigurationSession(last.prior, "request")

\* C28: when the configuration is complete and the posted message is empty,
\* white space only, or longer than MESSAGE_MAX characters once stripped,
\* the conversation persisted after the request equals the one persisted
\* before it.
C28_RejectedInputUnchanged ==
    chat_pc = "done" /\ completed = "invalid" => ChatHistory = found_history

\* the last call of get_client found no client, or found the endpoint, the
\* API key or the authentication mode different from the values recorded
CallNeededClient ==
    \/ called.client = 0
    \/ called.endpoint # called.last_endpoint
    \/ called.api_key # called.last_api_key
    \/ called.auth_mode # called.last_auth_mode

\* the manager holds the client and the recorded values the last call found
ClientKept ==
    /\ _client = called.client
    /\ _last_endpoint = called.last_endpoint
    /\ _last_api_key = called.last_api_key
    /\ _last_auth_mode = called.last_auth_mode

\* the recorded values are those the cached client was constructed with,
\* and nothing is recorded while no client is cached
RecordsMatchBuilt ==
    IF _client = 0
    THEN _last_endpoint = "None" /\ _last_api_key = "None" /\ _last_auth_mode = "None"
    ELSE /\ _last_endpoint = built.endpoint
         /\ _last_api_key = built.api_key
         /\ _last_auth_mode = built.auth_mode
         /\ built.azure_endpoint = BaseEndpoint(_last_endpoint)

\* C29 as stated: every call of get_client creates a new client exactly
\* when no client exists or the endpoint, the API key or the authentication
\* mode differs from the values recorded; otherwise it returns the client
\* cached; and the recorded values equal those the cached client was built
\* with.
C29_ClientCache_AsStated ==
    /\ called.outcome # "none" =>
          /\ called.created <=> CallNeededClient
          /\ ~CallNeededClient => called.returned = called.client
    /\ RecordsMatchBuilt

\* C29 amended: every call of get_client that returns has created a new
\* client exactly when no client existed or the endpoint, the API key or
\* the authentication mode differed from the values recorded at the last
\* creation, and has otherwise returned the cached instance; a call that
\* raises (configuration incomplete, endpoint not starting with 'https://',
\* or the construction failing with managed identity) creates no client and
\* leaves the cached client and the recorded values as they were, even when
\* those values differ; and the recorded values always equal those the
\* cached client was built with.
C29_ClientCache ==
    /\ called.outcome = "returned" =>
          /\ called.created <=> CallNeededClient
          /\ called.created =>
                /\ called.returned = clients_created
                /\ called.returned # called.client
                /\ _client = called.returned
                /\ _last_endpoint = called.endpoint
                /\ _last_api_key = called.api_key
                /\ _last_auth_mode = called.auth_mode
          /\ ~called.created =>
                /\ called.returned = called.client
                /\ ClientKept
    /\ called.outcome = "raised" => ~called.created /\ ClientKept
    /\ RecordsMatchBuilt

\* a call returned the cached client, the second one constructed, although
\* the API version configured is no longer the one it was built with
C29_Witness ==
    /\ called.outcome = "returned" /\ ~called.created
    /\ called.returned = 2 /\ _client = 2
    /\ built.api_version # api_version

\* a call raised and left a cached client whose recorded endpoint differs
\* from the endpoint configured
C29_RaisedKeepsClient ==
    /\ called.outcome = "raised"
    /\ _client # 0
    /\ CallNeededClient
    /\ endpoint = called.endpoint /\ endpoint # _last_endpoint

\* the last save was made in production mode
SavedInProduction == saved.op # "none" /\ saved.production

\* the settings file holds an 'endpoint' or an 'api_key' entry
FileHoldsSensitive(file) ==
    file.exists /\ (file.endpoint # "-" \/ file.api_key # "-")

C30_UnwritableKeepsSensitive ==
    /\ SavedInProduction
    /\ saved.vault_client /\ saved.secrets_set
    /\ ~saved.result
    /\ settings_file.endpoint \notin {"-", ""} /\ settings_file.api_key \notin {"-", ""}

====
